---- MODULE Spec2Model ----
(***************************************************************************)
(* A model of the OmniLogic UDP client (src/omnilogic.py): one public      *)
(* operation of OmniLogicAPI, run from the sending of its request to its   *)
(* return or its exception.  The controller and the network are the        *)
(* environment: they choose each datagram the socket hands out and when.   *)
(*                                                                         *)
(* Time is counted in ticks of half a second.  A call of sock.recvfrom      *)
(* blocks for 0..PollSlice ticks and then either returns a                 *)
(* datagram or raises socket.timeout; every other statement takes no time. *)
(* Payloads received are sequences of bytes (0..255); payloads sent are    *)
(* sequences of text tokens, the last of which may be NUL.                 *)
(***************************************************************************)
EXTENDS Integers, Sequences, FiniteSets, TLC

VARIABLES
    pc,               \* position of the one thread of control
    op,               \* the public operation called
    responseTimeout,  \* OmniLogicAPI.responseTimeout, in ticks
    now,              \* time.time(), in ticks
    msgId,            \* _sendRequest/_waitForData: the id of the request
    start,            \* _waitForData: start
    respMsgId,        \* _waitForData: respMsgId
    sent,             \* every frame handed to sock.sendto, in order
    nStray,           \* frames the wait loop in progress has read and not returned,
                      \* counted up to MaxStray
    matchedId,        \* the id of the frame _waitForData returned (-1: none yet)
    rfIds,            \* the ids of the frames _recv returned to _receiveFile
    firstFrame,       \* the first frame _recv returned to _receiveFile (<<>>: none yet)
    sawShort,         \* recvfrom has handed out a datagram of fewer than 24 bytes
    codec,            \* a frame on its way through toBytes and fromBytes
    blockPayloads,    \* the payloads of the frames read in the for loop
    rfMsgId,          \* _receiveFile: msgId
    msgType,          \* _receiveFile: msgType
    compressed,       \* _receiveFile: compressed
    data,             \* _receiveFile: data
    msgCompressed,    \* _receiveFile: msgCompressed
    blockCount,       \* _receiveFile: blockCount
    nBlocks,          \* _receiveFile: iterations of the for loop completed
    retval,           \* _receiveFile: retval
    returned,         \* the public operation has returned
    result,           \* the value it returned (<<>> for None)
    err               \* the exception that ended it ("" if none)

vars == <<pc, op, responseTimeout, now, msgId, start, respMsgId, sent,
          nStray, matchedId, rfIds, firstFrame, sawShort, codec,
          blockPayloads, rfMsgId, msgType, compressed, data,
          msgCompressed, blockCount, nBlocks, retval, returned, result, err>>

----------------------------------------------------------------------------
(* Bounds of the model *)

\* request and inbound message ids are drawn from 0..MaxMsgId
MaxMsgId == 1
\* responseTimeout is drawn from 1..MaxResponseTimeout ticks
MaxResponseTimeout == 2
\* a lead message announces at most MaxBlockCount blocks
MaxBlockCount == 2
\* the frames of another id the wait loop reads are counted up to MaxStray
MaxStray == 2

----------------------------------------------------------------------------
(* Program constants *)

REQUEST_CONFIGURATION_MESSAGE_TYPE == 1
SET_FILTER_SPEED_MESSAGE_TYPE == 9
REQUEST_LOG_CONFIG_MESSAGE_TYPE == 31
SET_EQUIPMENT_MESSAGE_TYPE == 164
MSP_LEADMESSAGE_MESSAGE_TYPE == 1998
MSP_BLOCKMESSAGE_MESSAGE_TYPE == 1999
GETTELEMETRY_MESSAGE_TYPE == 300
GETALARMLIST_MESSAGE_TYPE == 304
SET_STANDALONE_LIGHT_SHOW_MESSAGE_TYPE == 308
MSP_TELEMETRYUPDATE_MESSAGE_TYPE == 1004
XMLACK_MESSAGE_TYPE == 0
\* struct.calcsize("!LQ4sLBBBB"): the header fromBytes unpacks
HeaderSize == 24
\* data[8:]: the sub-header _receiveFile removes
SubHeaderSize == 8
\* sock.settimeout(0.5), in ticks
PollSlice == 1
\* the initial respMsgId
NoMsgId == -1

NUL == "\\x00"

----------------------------------------------------------------------------
(* Byte strings *)

Drop(s, n) == IF Len(s) <= n THEN <<>> ELSE SubSeq(s, n + 1, Len(s))

\* data[:-1]
DropLast(s) == IF Len(s) = 0 THEN <<>> ELSE SubSeq(s, 1, Len(s) - 1)

\* the payload kept whole
StripSubHeader_Keep(d) == d

\* data[8:]: "remove an 8 byte header to get to the payload data"
StripSubHeader(d) == Drop(d, SubHeaderSize)

IsDigit(b) == b >= 48 /\ b <= 57

RECURSIVE DigitsValue(_)
DigitsValue(s) ==
    IF Len(s) = 0 THEN 0
    ELSE 10 * DigitsValue(DropLast(s)) + (s[Len(s)] - 48)

\* int(text): an optional sign and at least one decimal digit
ParseInt(s) ==
    LET neg  == Len(s) > 0 /\ s[1] = 45
        digs == IF neg THEN Drop(s, 1) ELSE s
    IN  IF Len(digs) > 0 /\ \A i \in 1..Len(digs) : IsDigit(digs[i])
        THEN [ok |-> TRUE, val |-> IF neg THEN 0 - DigitsValue(digs) ELSE DigitsValue(digs)]
        ELSE [ok |-> FALSE, val |-> 0]

(* The lead message's document, reduced to one element: "<" text ">".  The  *)
(* text stands for the text of the element named MsgBlockCount.  Anything   *)
(* else does not parse, or holds no such element, or no integer.            *)
ParseBlockCount(d) ==
    LET doc == DropLast(d)     \* strip trailing \x00
    IN  IF Len(doc) >= 2 /\ doc[1] = 60 /\ doc[Len(doc)] = 62
        THEN ParseInt(SubSeq(doc, 2, Len(doc) - 1))
        ELSE [ok |-> FALSE, val |-> 0]

RECURSIVE SumBytes(_)
SumBytes(s) == IF Len(s) = 0 THEN 0 ELSE s[1] + SumBytes(Drop(s, 1))

(* zlib.decompress, for streams of one stored block: the two header bytes   *)
(* 120 1, the length of the block, the bytes of the block, and a checksum   *)
(* (the sum of the bytes modulo 256).  Anything else raises zlib.error.     *)
ZlibDecompress(b) ==
    LET n    == Len(b)
        body == SubSeq(b, 4, n - 1)
    IN  IF n >= 4 /\ b[1] = 120 /\ b[2] = 1 /\ b[3] = n - 4
           /\ b[n] = SumBytes(body) % 256
        THEN [ok |-> TRUE, val |-> body]
        ELSE [ok |-> FALSE, val |-> <<>>]

(* bytes.decode('utf-8') for one- and two-byte sequences: the code points   *)
(* of the text, or UnicodeDecodeError.                                      *)
RECURSIVE Utf8Decode(_)
Utf8Decode(b) ==
    IF Len(b) = 0 THEN [ok |-> TRUE, val |-> <<>>]
    ELSE IF b[1] < 128
    THEN LET r == Utf8Decode(Drop(b, 1))
         IN  [ok |-> r.ok, val |-> <<b[1]>> \o r.val]
    ELSE IF b[1] >= 194 /\ b[1] <= 223 /\ Len(b) >= 2 /\ b[2] >= 128 /\ b[2] <= 191
    THEN LET r == Utf8Decode(Drop(b, 2))
         IN  [ok |-> r.ok, val |-> <<(b[1] - 192) * 64 + (b[2] - 128)>> \o r.val]
    ELSE [ok |-> FALSE, val |-> <<>>]

----------------------------------------------------------------------------
(* Datagrams the socket hands out *)

Datagram(id, ty, c, d) ==
    [size |-> HeaderSize + Len(d), msgId |-> id, msgType |-> ty,
     compressed |-> c, data |-> d]

\* a datagram of n < HeaderSize bytes
ShortDatagram(n) ==
    [size |-> n, msgId |-> 0, msgType |-> 0, compressed |-> 0, data |-> <<>>]

SubHeader == [i \in 1..SubHeaderSize |-> 0]

DecimalText(n) == IF n < 0 THEN <<45, 48 - n>> ELSE <<48 + n>>

LeadXml(n) == <<60>> \o DecimalText(n) \o <<62, 0>>

\* the compressed form of the text "A"
ZlibA == <<120, 1, 1, 65, 65>>

(* The payloads of the inbound frames: lead documents (one of them with a   *)
(* negative count), a compressed stream                                    *)
(* alone, and sub-headers followed by a chunk of text, by a byte that is no *)
(* UTF-8, or by a compressed stream.                                        *)
Payloads ==
    {ZlibA}
    \cup {LeadXml(n) : n \in -1..MaxBlockCount}
    \cup {SubHeader \o c : c \in {<<65>>, <<255>>, ZlibA}}

InboundTypes ==
    {MSP_LEADMESSAGE_MESSAGE_TYPE, MSP_BLOCKMESSAGE_MESSAGE_TYPE,
     MSP_TELEMETRYUPDATE_MESSAGE_TYPE}

MsgIds == 0..MaxMsgId

Frames ==
    {Datagram(id, ty, c, d) : id \in MsgIds, ty \in InboundTypes,
                              c \in {0, 1}, d \in Payloads}

ShortDatagrams == {ShortDatagram(0), ShortDatagram(HeaderSize - 1)}

\* whatever recvfrom may hand out
Datagrams == Frames \cup ShortDatagrams

\* how long a recvfrom that returns a datagram may have blocked
Delays == 0..PollSlice

\* a short header padded instead of refused
fromBytes_Lenient(dg) ==
    [ok |-> TRUE, msgId |-> dg.msgId, msgType |-> dg.msgType,
     compressed |-> dg.compressed, data |-> dg.data]

(* OmniLogicRequest.fromBytes: struct.unpack raises struct.error unless the *)
(* header holds exactly HeaderSize bytes.                                   *)
fromBytes(dg) ==
    IF dg.size < HeaderSize
    THEN [ok |-> FALSE, msgId |-> NoMsgId, msgType |-> 0, compressed |-> 0, data |-> <<>>]
    ELSE [ok |-> TRUE, msgId |-> dg.msgId, msgType |-> dg.msgType,
          compressed |-> dg.compressed, data |-> dg.data]

----------------------------------------------------------------------------
(* Frames the client sends *)

\* ET.tostring(bodyElement, xml_declaration=True, encoding='unicode')
XmlRequest(name, hasParameters) ==
    <<"<?xml?>", "<Request>", "<Name>", name, "</Name>">>
    \o (IF hasParameters THEN <<"<Parameters/>">> ELSE <<>>)
    \o <<"</Request>">>

\* the public operations: the message type and the body each hands to _sendRequest
Operations ==
    [getAlarmList |->
        [get |-> TRUE, msgType |-> GETALARMLIST_MESSAGE_TYPE,
         extraData |-> XmlRequest("GetAllAlarmList", FALSE)],
     getConfig |->
        [get |-> TRUE, msgType |-> REQUEST_CONFIGURATION_MESSAGE_TYPE,
         extraData |-> XmlRequest("RequestConfiguration", FALSE)],
     getFilterDiagnostics |->
        [get |-> TRUE, msgType |-> REQUEST_CONFIGURATION_MESSAGE_TYPE,
         extraData |-> XmlRequest("GetUIFilterDiagnosticInfo", TRUE)],
     getLogConfig |->
        [get |-> TRUE, msgType |-> REQUEST_LOG_CONFIG_MESSAGE_TYPE,
         extraData |-> <<>>],
     getTelemetry |->
        [get |-> TRUE, msgType |-> GETTELEMETRY_MESSAGE_TYPE,
         extraData |-> XmlRequest("RequestTelemetryData", FALSE)],
     setEquipment |->
        [get |-> FALSE, msgType |-> SET_EQUIPMENT_MESSAGE_TYPE,
         extraData |-> XmlRequest("SetUIEquipmentCmd", TRUE)],
     setFilterSpeed |->
        [get |-> FALSE, msgType |-> SET_FILTER_SPEED_MESSAGE_TYPE,
         extraData |-> XmlRequest("SetUIFilterSpeedCmd", TRUE)],
     setLightShow |->
        [get |-> FALSE, msgType |-> SET_STANDALONE_LIGHT_SHOW_MESSAGE_TYPE,
         extraData |-> XmlRequest("SetStandAloneLightShow", TRUE)]]

\* the operations called in the model: every set operation, and a get operation
\* with a body and the one without
OpNames == {"getTelemetry", "getLogConfig", "setEquipment", "setFilterSpeed",
            "setLightShow"}

IsGet(o) == Operations[o].get

\* OmniLogicRequest(msgId, msgType, extraData, clientType), as toBytes sends it
Request(id, ty, extra, ct, by) ==
    [msgId |-> id, msgType |-> ty, clientType |-> ct, extraData |-> extra, by |-> by]

\* every body taken for an XML body: terminator appended, clientType 0
RequestFrame_AlwaysXml(id, ty, extra) ==
    Request(id, ty, extra \o <<NUL>>, 0, "_sendRequest")

\* _sendRequest: the frame built from the caller's message type and body
RequestFrame(id, ty, extra) ==
    Request(id, ty,
            IF extra # <<>> THEN extra \o <<NUL>> ELSE extra,
            IF extra # <<>> THEN 0 ELSE 1,
            "_sendRequest")

\* the ack addressed with the id of the request
AckFrame_RequestId(id) ==
    Request(msgId, XMLACK_MESSAGE_TYPE, XmlRequest("Ack", FALSE), 0, "_sendAck")

\* _sendAck: the frame built for the id it is given
AckFrame(id) ==
    Request(id, XMLACK_MESSAGE_TYPE, XmlRequest("Ack", FALSE), 0, "_sendAck")

----------------------------------------------------------------------------
(* OmniLogicRequest on the wire *)

\* bytes(extraData, "utf-8") for code points below 2048
RECURSIVE Utf8Encode(_)
Utf8Encode(t) ==
    IF Len(t) = 0 THEN <<>>
    ELSE (IF t[1] < 128 THEN <<t[1]>>
          ELSE <<192 + (t[1] \div 64), 128 + (t[1] % 64)>>)
         \o Utf8Encode(Drop(t, 1))

\* struct.pack("!L" / "!Q" / "!B"): an unsigned integer in w bytes, network order
RECURSIVE PackUInt(_, _)
PackUInt(n, w) ==
    IF w = 0 THEN <<>> ELSE PackUInt(n \div 256, w - 1) \o <<n % 256>>

\* struct.unpack of one unsigned field, network order
RECURSIVE UnpackUInt(_)
UnpackUInt(b) ==
    IF Len(b) = 0 THEN 0 ELSE 256 * UnpackUInt(DropLast(b)) + b[Len(b)]

\* "1.19".encode("ascii")
Version == <<49, 46, 49, 57>>

\* OmniLogicRequest.__init__: the fields a request object holds
OmniLogicRequest(id, ty, extraData, clientType) ==
    [msgId |-> id, msgType |-> ty, clientType |-> clientType,
     extraData |-> Utf8Encode(extraData), version |-> Version]

\* the message type packed where the id belongs, and the id in its place
toBytes_TypeFirst(req, t) ==
    PackUInt(req.msgType, 4) \o PackUInt(t, 8) \o req.version
    \o PackUInt(req.msgId, 4) \o PackUInt(req.clientType, 1)
    \o PackUInt(0, 1) \o PackUInt(0, 1) \o PackUInt(0, 1)
    \o req.extraData

\* OmniLogicRequest.toBytes, called when the clock reads t seconds
toBytes(req, t) ==
    PackUInt(req.msgId, 4) \o PackUInt(t, 8) \o req.version
    \o PackUInt(req.msgType, 4) \o PackUInt(req.clientType, 1)
    \o PackUInt(0, 1) \o PackUInt(0, 1) \o PackUInt(0, 1)
    \o req.extraData

\* OmniLogicRequest.fromBytes on the bytes of a datagram
fromBytesRaw(b) ==
    IF Len(b) < HeaderSize
    THEN [ok |-> FALSE]
    ELSE [ok |-> TRUE,
          msgId |-> UnpackUInt(SubSeq(b, 1, 4)),
          tstamp |-> UnpackUInt(SubSeq(b, 5, 12)),
          vers |-> SubSeq(b, 13, 16),
          msgType |-> UnpackUInt(SubSeq(b, 17, 20)),
          clientType |-> b[21],
          res1 |-> b[22],
          compressed |-> b[23],
          res3 |-> b[24],
          rdata |-> Drop(b, HeaderSize)]

\* the frames put through the codec: ids of one, two and four significant
\* bytes, every flag byte zero and non-zero, texts of no, one and two
\* characters (the second text holds a two-byte character)
CodecFrames ==
    [msgId : {1, 258, 2147483647}, tstamp : {0, 7}, msgType : {0, 1998},
     clientType : {0, 1}, res1 : {0, 1}, compressed : {0, 1}, res3 : {0, 1},
     payload : {<<>>, <<65>>, <<233, 0>>}]

\* what time.time_ns() reads, in seconds, when toBytes runs
CodecClocks == {7, 300}

\* no frame is in the codec
CodecIdle == [pc |-> "off"]

----------------------------------------------------------------------------
(* The program *)

\* a session after OmniLogicAPI.__init__, no operation called yet
SessionInit ==
    /\ pc = "idle"
    /\ op = "none"
    /\ responseTimeout \in 1..MaxResponseTimeout
    /\ now = 0
    /\ msgId = NoMsgId
    /\ start = 0
    /\ respMsgId = NoMsgId
    /\ sent = <<>>
    /\ nStray = 0
    /\ matchedId = NoMsgId
    /\ rfIds = <<>>
    /\ firstFrame = <<>>
    /\ sawShort = FALSE
    /\ blockPayloads = <<>>
    /\ rfMsgId = NoMsgId
    /\ msgType = 0
    /\ compressed = 0
    /\ data = <<>>
    /\ msgCompressed = FALSE
    /\ blockCount = 0
    /\ nBlocks = 0
    /\ retval = <<>>
    /\ returned = FALSE
    /\ result = <<>>
    /\ err = ""

Init == SessionInit /\ codec = CodecIdle

sessionVars == <<pc, op, responseTimeout, now, msgId, start, respMsgId, sent,
                 nStray, matchedId, rfIds, firstFrame, sawShort,
                 blockPayloads, rfMsgId, msgType, compressed, data,
                 msgCompressed, blockCount, nBlocks, retval, returned, result, err>>

waitVars == <<start, respMsgId, nStray, matchedId>>
fileVars == <<rfIds, firstFrame, blockPayloads, rfMsgId, msgType, compressed, data,
              msgCompressed, blockCount, nBlocks, retval>>

\* an exception leaves the public operation
Raise(e) ==
    /\ pc' = "failed"
    /\ err' = e
    /\ UNCHANGED <<returned, result>>

(* A public operation up to the wait loop: it builds its body and calls     *)
(* _sendRequest, which draws the id, sends the request and enters           *)
(* _waitForData (respMsgId = -1, start = time.time(), settimeout(0.5)).     *)
SendRequest(o, id) ==
    /\ pc = "idle"
    /\ op' = o
    /\ msgId' = id
    /\ sent' = Append(sent, RequestFrame(id, Operations[o].msgType, Operations[o].extraData))
    /\ respMsgId' = NoMsgId
    /\ start' = now
    /\ pc' = "wait"
    /\ UNCHANGED <<responseTimeout, codec, sawShort, now, nStray, matchedId, fileVars,
                   returned, result, err>>

\* the loop condition with <= for <
WaitLoopCondition_OffByOne == respMsgId # msgId /\ now <= start + responseTimeout

\* _waitForData: the condition of the while loop
WaitLoopCondition == respMsgId # msgId /\ now < start + responseTimeout

\* the test left out: the first frame read is returned
IsMatch_Any(f) == TRUE

\* _waitForData: if msgId == respMsgId
IsMatch(f) == msgId = f.msgId

\* the matched frame acked like a frame of _receiveFile
WaitRecvFrame_AckMatched(d, dg) ==
    /\ pc = "wait"
    /\ WaitLoopCondition
    /\ LET f == fromBytes(dg) IN
        /\ f.ok
        /\ now' = now + d
        /\ sawShort' = (sawShort \/ dg.size < HeaderSize)
        /\ respMsgId' = f.msgId
        /\ IF IsMatch(f)
           THEN /\ matchedId' = f.msgId
                /\ nStray' = 0
                /\ sent' = Append(sent, AckFrame(f.msgId))
                /\ pc' = IF IsGet(op) THEN "rf_first" ELSE "done"
                /\ returned' = ~IsGet(op)
           ELSE /\ nStray' = IF nStray < MaxStray THEN nStray + 1 ELSE nStray
                /\ UNCHANGED <<matchedId, pc, returned, sent>>
    /\ UNCHANGED <<op, responseTimeout, codec, msgId, start, fileVars, result, err>>

\* the matched frame handed to _receiveFile as its first message
WaitRecvFrame_UseMatched(d, dg) ==
    /\ pc = "wait"
    /\ WaitLoopCondition
    /\ LET f == fromBytes(dg) IN
        /\ f.ok
        /\ now' = now + d
        /\ sawShort' = (sawShort \/ dg.size < HeaderSize)
        /\ respMsgId' = f.msgId
        /\ IF IsMatch(f)
           THEN /\ matchedId' = f.msgId
                /\ nStray' = 0
                /\ pc' = IF IsGet(op) THEN "rf_ack" ELSE "done"
                /\ returned' = ~IsGet(op)
                /\ IF IsGet(op)
                   THEN /\ rfMsgId' = f.msgId
                        /\ msgType' = f.msgType
                        /\ compressed' = f.compressed
                        /\ data' = f.data
                        /\ rfIds' = Append(rfIds, f.msgId)
                        /\ firstFrame' = <<[msgType |-> f.msgType,
                                            compressed |-> f.compressed,
                                            data |-> f.data]>>
                   ELSE UNCHANGED <<rfMsgId, msgType, compressed, data, rfIds, firstFrame>>
           ELSE /\ nStray' = IF nStray < MaxStray THEN nStray + 1 ELSE nStray
                /\ UNCHANGED <<matchedId, pc, returned, rfMsgId, msgType, compressed,
                               data, rfIds, firstFrame>>
    /\ UNCHANGED <<op, responseTimeout, codec, msgId, start, sent, blockPayloads,
                   msgCompressed, blockCount, nBlocks, retval, result, err>>

(* _waitForData: one pass of the loop in which _recv returns a frame.  A    *)
(* match returns the frame to _sendRequest, which drops it and returns: a   *)
(* set operation is then over, a get operation goes on to _receiveFile.     *)
WaitRecvFrame(d, dg) ==
    /\ pc = "wait"
    /\ WaitLoopCondition
    /\ LET f == fromBytes(dg) IN
        /\ f.ok
        /\ now' = now + d
        /\ sawShort' = (sawShort \/ dg.size < HeaderSize)
        /\ respMsgId' = f.msgId
        /\ IF IsMatch(f)
           THEN /\ matchedId' = f.msgId
                /\ nStray' = 0
                /\ pc' = IF IsGet(op) THEN "rf_first" ELSE "done"
                /\ returned' = ~IsGet(op)
           ELSE /\ nStray' = IF nStray < MaxStray THEN nStray + 1 ELSE nStray
                /\ UNCHANGED <<matchedId, pc, returned>>
    /\ UNCHANGED <<op, responseTimeout, codec, msgId, start, sent, fileVars, result, err>>

\* _waitForData: _recv raises struct.error, which the loop does not catch
WaitRecvShort(d, dg) ==
    /\ pc = "wait"
    /\ WaitLoopCondition
    /\ ~fromBytes(dg).ok
    /\ now' = now + d
    /\ sawShort' = (sawShort \/ dg.size < HeaderSize)
    /\ Raise("struct.error")
    /\ UNCHANGED <<op, responseTimeout, codec, msgId, sent, waitVars, fileVars>>

\* the request sent again after each poll that timed out
WaitRecvTimeout_Resend ==
    /\ pc = "wait"
    /\ respMsgId # msgId /\ now < start + responseTimeout
    /\ now' = now + PollSlice
    /\ sent' = Append(sent, sent[1])
    /\ UNCHANGED <<pc, op, responseTimeout, codec, sawShort, msgId, waitVars, fileVars,
                   returned, result, err>>

\* _waitForData: recvfrom raises socket.timeout; except socket.timeout: pass
WaitRecvTimeout ==
    /\ pc = "wait"
    /\ WaitLoopCondition
    /\ now' = now + PollSlice
    /\ UNCHANGED <<pc, op, responseTimeout, codec, sawShort, msgId, sent, waitVars, fileVars,
                   returned, result, err>>

\* the raise left out: _waitForData returns None and the caller goes on
WaitExpire_FallThrough ==
    /\ pc = "wait"
    /\ ~(respMsgId # msgId /\ now < start + responseTimeout)
    /\ pc' = IF IsGet(op) THEN "rf_first" ELSE "done"
    /\ returned' = ~IsGet(op)
    /\ UNCHANGED <<op, responseTimeout, codec, sawShort, now, msgId, sent, waitVars, fileVars,
                   result, err>>

\* _waitForData: the loop ends; raise Exception() # timeout
WaitExpire ==
    /\ pc = "wait"
    /\ ~WaitLoopCondition
    /\ Raise("Exception")
    /\ UNCHANGED <<op, responseTimeout, codec, sawShort, now, msgId, sent, waitVars, fileVars>>

\* _receiveFile: "Receive our first message"
ReceiveFirst(d, dg) ==
    /\ pc = "rf_first"
    /\ LET f == fromBytes(dg) IN
        /\ f.ok
        /\ rfMsgId' = f.msgId
        /\ msgType' = f.msgType
        /\ compressed' = f.compressed
        /\ data' = f.data
        /\ rfIds' = Append(rfIds, f.msgId)
        /\ firstFrame' = <<[msgType |-> f.msgType, compressed |-> f.compressed,
                             data |-> f.data]>>
    /\ now' = now + d
    /\ sawShort' = (sawShort \/ dg.size < HeaderSize)
    /\ pc' = "rf_ack"
    /\ UNCHANGED <<op, responseTimeout, codec, msgId, sent, waitVars, blockPayloads,
                   msgCompressed, blockCount, nBlocks, retval, returned, result, err>>

\* the allow-list left out: the flag of the first frame decides alone
AckFirst_FlagOnly ==
    /\ pc = "rf_ack"
    /\ sent' = Append(sent, AckFrame(rfMsgId))
    /\ msgCompressed' = (compressed = 1)
    /\ pc' = "rf_branch"
    /\ UNCHANGED <<op, responseTimeout, codec, sawShort, now, msgId, waitVars, rfIds,
                   blockPayloads, rfMsgId, msgType, compressed, data, firstFrame, blockCount,
                   nBlocks, retval, returned, result, err>>

\* _receiveFile: "Send an ack", and the compression in effect
AckFirst ==
    /\ pc = "rf_ack"
    /\ sent' = Append(sent, AckFrame(rfMsgId))
    /\ msgCompressed' = (compressed = 1 \/ msgType \in {MSP_TELEMETRYUPDATE_MESSAGE_TYPE})
    /\ pc' = "rf_branch"
    /\ UNCHANGED <<op, responseTimeout, codec, sawShort, now, msgId, waitVars, rfIds,
                   blockPayloads, rfMsgId, msgType, compressed, data, firstFrame, blockCount,
                   nBlocks, retval, returned, result, err>>

\* the loop entered once whatever the count: a body run before its test
Branch_AtLeastOne ==
    /\ pc = "rf_branch"
    /\ IF msgType = MSP_LEADMESSAGE_MESSAGE_TYPE
       THEN LET p == ParseBlockCount(data) IN
            IF p.ok
            THEN /\ blockCount' = p.val
                 /\ retval' = <<>>
                 /\ pc' = "blk_recv"
                 /\ UNCHANGED <<returned, result, err>>
            ELSE /\ Raise("ParseError")
                 /\ UNCHANGED <<blockCount, retval>>
       ELSE /\ retval' = IF msgCompressed THEN data ELSE StripSubHeader(data)
            /\ pc' = "finish"
            /\ UNCHANGED <<blockCount, returned, result, err>>
    /\ UNCHANGED <<op, responseTimeout, codec, sawShort, now, msgId, sent, waitVars, rfIds,
                   blockPayloads, rfMsgId, msgType, compressed, data, firstFrame,
                   msgCompressed, nBlocks>>

\* _receiveFile: the if / elif / else on the first message
Branch ==
    /\ pc = "rf_branch"
    /\ IF msgType = MSP_LEADMESSAGE_MESSAGE_TYPE
       THEN LET p == ParseBlockCount(data) IN
            IF p.ok
            THEN /\ blockCount' = p.val
                 /\ retval' = <<>>
                 /\ pc' = IF p.val > 0 THEN "blk_recv" ELSE "finish"
                 /\ UNCHANGED <<returned, result, err>>
            ELSE /\ Raise("ParseError")
                 /\ UNCHANGED <<blockCount, retval>>
       ELSE /\ retval' = IF msgCompressed THEN data ELSE StripSubHeader(data)
            /\ pc' = "finish"
            /\ UNCHANGED <<blockCount, returned, result, err>>
    /\ UNCHANGED <<op, responseTimeout, codec, sawShort, now, msgId, sent, waitVars, rfIds,
                   blockPayloads, rfMsgId, msgType, compressed, data, firstFrame,
                   msgCompressed, nBlocks>>

\* a frame that is no block message read and passed over
ReceiveBlock_OnlyBlockType(d, dg) ==
    /\ pc = "blk_recv"
    /\ LET f == fromBytes(dg) IN
        /\ f.ok
        /\ IF f.msgType = MSP_BLOCKMESSAGE_MESSAGE_TYPE
           THEN /\ rfMsgId' = f.msgId
                /\ msgType' = f.msgType
                /\ data' = f.data
                /\ rfIds' = Append(rfIds, f.msgId)
                /\ blockPayloads' = Append(blockPayloads, f.data)
                /\ pc' = "blk_ack"
           ELSE UNCHANGED <<rfMsgId, msgType, data, rfIds, blockPayloads, pc>>
    /\ now' = now + d
    /\ sawShort' = (sawShort \/ dg.size < HeaderSize)
    /\ UNCHANGED <<op, responseTimeout, codec, msgId, sent, waitVars, compressed, firstFrame,
                   msgCompressed, blockCount, nBlocks, retval, returned, result, err>>

\* _receiveFile: the _recv of the for loop
ReceiveBlock(d, dg) ==
    /\ pc = "blk_recv"
    /\ LET f == fromBytes(dg) IN
        /\ f.ok
        /\ rfMsgId' = f.msgId
        /\ msgType' = f.msgType
        /\ data' = f.data
        /\ rfIds' = Append(rfIds, f.msgId)
        /\ blockPayloads' = Append(blockPayloads, f.data)
    /\ now' = now + d
    /\ sawShort' = (sawShort \/ dg.size < HeaderSize)
    /\ pc' = "blk_ack"
    /\ UNCHANGED <<op, responseTimeout, codec, msgId, sent, waitVars, compressed, firstFrame,
                   msgCompressed, blockCount, nBlocks, retval, returned, result, err>>

\* the block frames left without an ack
AckBlock_NoAck ==
    /\ pc = "blk_ack"
    /\ retval' = retval \o StripSubHeader(data)
    /\ nBlocks' = nBlocks + 1
    /\ pc' = IF nBlocks + 1 < blockCount THEN "blk_recv" ELSE "finish"
    /\ UNCHANGED <<op, responseTimeout, codec, sawShort, now, msgId, sent, waitVars, rfIds,
                   blockPayloads, rfMsgId, msgType, compressed, data, firstFrame,
                   msgCompressed, blockCount, returned, result, err>>

\* each block put in front of the buffer instead of behind it
AckBlock_Prepend ==
    /\ pc = "blk_ack"
    /\ sent' = Append(sent, AckFrame(rfMsgId))
    /\ retval' = StripSubHeader(data) \o retval
    /\ nBlocks' = nBlocks + 1
    /\ pc' = IF nBlocks + 1 < blockCount THEN "blk_recv" ELSE "finish"
    /\ UNCHANGED <<op, responseTimeout, codec, sawShort, now, msgId, waitVars, rfIds,
                   blockPayloads, rfMsgId, msgType, compressed, data, firstFrame,
                   msgCompressed, blockCount, returned, result, err>>

\* _receiveFile: the rest of the body of the for loop
AckBlock ==
    /\ pc = "blk_ack"
    /\ sent' = Append(sent, AckFrame(rfMsgId))
    /\ retval' = retval \o StripSubHeader(data)
    /\ nBlocks' = nBlocks + 1
    /\ pc' = IF nBlocks + 1 < blockCount THEN "blk_recv" ELSE "finish"
    /\ UNCHANGED <<op, responseTimeout, codec, sawShort, now, msgId, waitVars, rfIds,
                   blockPayloads, rfMsgId, msgType, compressed, data, firstFrame,
                   msgCompressed, blockCount, returned, result, err>>

\* _receiveFile: _recv raises struct.error
ReceiveFileShort(d, dg) ==
    /\ pc \in {"rf_first", "blk_recv"}
    /\ ~fromBytes(dg).ok
    /\ now' = now + d
    /\ sawShort' = (sawShort \/ dg.size < HeaderSize)
    /\ Raise("struct.error")
    /\ UNCHANGED <<op, responseTimeout, codec, msgId, sent, waitVars, fileVars>>

\* socket.timeout caught in _receiveFile, which returns what it has so far
ReceiveFileTimeout_ReturnPartial ==
    /\ pc \in {"rf_first", "blk_recv"}
    /\ now' = now + PollSlice
    /\ pc' = "finish"
    /\ UNCHANGED <<op, responseTimeout, codec, sawShort, msgId, sent, waitVars, fileVars,
                   returned, result, err>>

(* _receiveFile: recvfrom raises socket.timeout (the socket keeps the       *)
(* timeout _waitForData set), and nothing catches it.                       *)
ReceiveFileTimeout ==
    /\ pc \in {"rf_first", "blk_recv"}
    /\ now' = now + PollSlice
    /\ Raise("socket.timeout")
    /\ UNCHANGED <<op, responseTimeout, codec, sawShort, msgId, sent, waitVars, fileVars>>

\* _receiveFile: "Decompress the returned data if necessary", decode, return
Finish ==
    /\ pc = "finish"
    /\ LET z == IF msgCompressed THEN ZlibDecompress(retval)
                ELSE [ok |-> TRUE, val |-> retval]
           t == Utf8Decode(z.val)
       IN  IF ~z.ok THEN Raise("zlib.error")
           ELSE IF ~t.ok THEN Raise("UnicodeDecodeError")
           ELSE /\ pc' = "done"
                /\ returned' = TRUE
                /\ result' = t.val
                /\ err' = err
    /\ UNCHANGED <<op, responseTimeout, codec, sawShort, now, msgId, sent, waitVars, fileVars>>

Next ==
    \/ \E o \in OpNames, id \in MsgIds : SendRequest(o, id)
    \/ \E d \in Delays, dg \in Datagrams : WaitRecvFrame(d, dg)
    \/ \E d \in Delays, dg \in Datagrams : WaitRecvShort(d, dg)
    \/ WaitRecvTimeout
    \/ WaitExpire
    \/ \E d \in Delays, dg \in Datagrams : ReceiveFirst(d, dg)
    \/ AckFirst
    \/ Branch
    \/ \E d \in Delays, dg \in Datagrams : ReceiveBlock(d, dg)
    \/ AckBlock
    \/ \E d \in Delays, dg \in Datagrams : ReceiveFileShort(d, dg)
    \/ ReceiveFileTimeout
    \/ Finish

Spec == Init /\ [][Next]_vars

(* _sendRequest alone: the request and the wait loop, up to the return of   *)
(* _waitForData or its exception.                                           *)
WaitNext ==
    \/ \E o \in OpNames, id \in MsgIds : SendRequest(o, id)
    \/ \E d \in Delays, dg \in Datagrams : WaitRecvFrame(d, dg)
    \/ \E d \in Delays, dg \in Datagrams : WaitRecvShort(d, dg)
    \/ WaitRecvTimeout
    \/ WaitExpire

(* One thread runs _sendRequest to its end, so no step is postponed for     *)
(* ever; and time does not stand still for ever while the thread runs.      *)
TimePasses == WaitNext /\ now' > now

FairWaitSpec ==
    Init /\ [][WaitNext]_vars /\ WF_vars(WaitNext) /\ WF_vars(TimePasses)

----------------------------------------------------------------------------
(* A frame through toBytes and back through fromBytes *)

CodecInit ==
    /\ SessionInit
    /\ codec \in [pc : {"frame"}, frame : CodecFrames, clock : CodecClocks]

\* request.toBytes() on a request built from the frame's fields
CodecEncode ==
    /\ codec.pc = "frame"
    /\ codec' = [pc |-> "encoded", frame |-> codec.frame, clock |-> codec.clock,
                 wire |-> toBytes(OmniLogicRequest(codec.frame.msgId,
                                                   codec.frame.msgType,
                                                   codec.frame.payload,
                                                   codec.frame.clientType),
                                  codec.clock)]
    /\ UNCHANGED sessionVars

\* OmniLogicRequest.fromBytes on the bytes toBytes returned
CodecDecode ==
    /\ codec.pc = "encoded"
    /\ codec' = [pc |-> "decoded", frame |-> codec.frame, clock |-> codec.clock,
                 wire |-> codec.wire, out |-> fromBytesRaw(codec.wire)]
    /\ UNCHANGED sessionVars

CodecNext == CodecEncode \/ CodecDecode

CodecSpec == CodecInit /\ [][CodecNext]_vars

----------------------------------------------------------------------------
(* What the claims speak of *)

\* the first response frame asks for decompression: its flag, or its type
FirstFrameCompressed ==
    /\ firstFrame # <<>>
    /\ (firstFrame[1].compressed = 1
        \/ firstFrame[1].msgType = MSP_TELEMETRYUPDATE_MESSAGE_TYPE)

\* the exceptions of zlib.decompress and of decode, raised on the complete buffer
FileEndErrs == {"zlib.error", "UnicodeDecodeError"}

\* the operations that call _sendRequest and nothing else
SetOps == {o \in DOMAIN Operations : ~Operations[o].get}

\* the operations that call _sendRequest, then _receiveFile
GetOps == {o \in DOMAIN Operations : Operations[o].get}

\* the first response frame is a lead message whose MsgBlockCount is an
\* integer not above zero
EmptyLead ==
    /\ firstFrame # <<>>
    /\ firstFrame[1].msgType = MSP_LEADMESSAGE_MESSAGE_TYPE
    /\ ParseBlockCount(firstFrame[1].data).ok
    /\ ParseBlockCount(firstFrame[1].data).val <= 0

\* the deadline of the wait loop
Deadline == start + responseTimeout

Acks == SelectSeq(sent, LAMBDA f : f.by = "_sendAck")

Requests == SelectSeq(sent, LAMBDA f : f.by = "_sendRequest")

\* the positions at which the thread is about to call recvfrom in _receiveFile
FileRecvPcs == {"rf_first", "blk_recv"}

\* the positions past the wait loop that an exception has not ended
PastWaitPcs == {"rf_first", "rf_ack", "rf_branch", "blk_recv", "blk_ack", "finish", "done"}

\* the payloads with their first 8 bytes removed, one after the other
RECURSIVE ConcatPast8(_)
ConcatPast8(ps) ==
    IF Len(ps) = 0 THEN <<>>
    ELSE ConcatPast8(SubSeq(ps, 1, Len(ps) - 1))
         \o (LET p == ps[Len(ps)] IN [i \in 1..(IF Len(p) > 8 THEN Len(p) - 8 ELSE 0) |-> p[i + 8]])

----------------------------------------------------------------------------
(* C1.  The wait loop returns only a frame whose id is the id of the        *)
(* request: whenever the operation is past the wait loop, the frame the     *)
(* loop returned carries the request's id.  A frame of another id read by   *)
(* the loop is discarded: the step that reads it leaves the thread in the   *)
(* loop, sends nothing, keeps nothing of the frame but respMsgId, and       *)
(* neither returns nor raises, however many such frames came before.        *)
C1_MessageIdMatching ==
    /\ [](matchedId # NoMsgId => matchedId = msgId)
    /\ [](pc \in PastWaitPcs => matchedId = msgId)
    /\ [][\A d \in Delays, dg \in Frames :
            (WaitRecvFrame(d, dg) /\ dg.msgId # msgId)
            => /\ pc' = "wait"
               /\ sent' = sent
               /\ matchedId' = matchedId
               /\ UNCHANGED <<fileVars, returned, result, err>>]_vars

\* the loop has discarded several frames of another id and still waits
C1_Witness == pc = "wait" /\ nStray >= 2 /\ respMsgId # msgId /\ respMsgId # NoMsgId

(* C2.  If no frame with the request's id arrives (and no datagram too      *)
(* short to be a frame), the operation ends with the timeout exception of   *)
(* the wait loop; that exception is raised only once responseTimeout has    *)
(* elapsed since the start of the wait, and less than one poll slice after. *)
C2_Timeout ==
    /\ ([](matchedId = NoMsgId /\ err # "struct.error"))
          => <>(pc = "failed" /\ err = "Exception")
    /\ [](err = "Exception" => now >= Deadline /\ now < Deadline + PollSlice)

\* the timeout was raised although frames of another id kept arriving
C2_Witness == pc = "failed" /\ err = "Exception" /\ nStray >= 2 /\ now = Deadline

C4_AckAddressing ==
    /\ Len(Acks) <= Len(rfIds)
    /\ \A i \in 1..Len(Acks) :
        /\ Acks[i].msgId = rfIds[i]
        /\ Acks[i].msgType = 0
        /\ Acks[i].clientType = 0
    /\ (pc \in FileRecvPcs => Len(Acks) = Len(rfIds))
    /\ (Len(blockPayloads) > 0 => Len(Acks) >= 1 /\ Acks[1].msgId = rfIds[1])

\* two acks of which the second echoes an id that is not the request's
C4_Witness ==
    /\ Len(Acks) = 2
    /\ Acks[1].msgId = msgId
    /\ Acks[2].msgId # msgId
    /\ Len(blockPayloads) = 1

C6_Reassembly ==
    /\ Len(blockPayloads) <= (IF blockCount >= 1 THEN blockCount ELSE 0)
    /\ Len(rfIds) <= 1 + Len(blockPayloads)
    /\ (blockCount >= 1 /\ pc = "blk_recv"
          => Len(blockPayloads) < blockCount /\ retval = ConcatPast8(blockPayloads))
    /\ (blockCount >= 1 /\ pc = "blk_ack"
          => retval = ConcatPast8(SubSeq(blockPayloads, 1, Len(blockPayloads) - 1)))
    /\ (blockCount >= 1 /\ pc \in {"finish", "done"}
          => /\ Len(blockPayloads) = blockCount
             /\ Len(rfIds) = 1 + blockCount
             /\ retval = ConcatPast8(blockPayloads))

\* two blocks of different content were put together in the order they came
C6_Witness ==
    /\ pc = "finish"
    /\ blockCount = 2
    /\ retval = <<65, 255>>

(* C7 as stated.  Whenever _receiveFile is about to receive a frame (the    *)
(* first response frame or a block frame), responseTimeout has not yet      *)
(* elapsed since the start of the wait.                                     *)
C7_SingleDeadline == pc \in FileRecvPcs => now < Deadline

(* C8 as stated.  A receive that times out before responseTimeout has       *)
(* elapsed does not end the exchange: no operation has been ended by        *)
(* socket.timeout at a time before the deadline.                            *)
C8_TransientTimeout == ~(pc = "failed" /\ err = "socket.timeout" /\ now < Deadline)

(* C9.  A get operation has returned only when the first response frame     *)
(* and, after a lead message, all the announced block frames have been      *)
(* read; an operation ended by an exception has returned nothing, whatever  *)
(* the buffer held by then.                                                 *)
C9_NoPartialSuccess ==
    /\ (returned /\ IsGet(op)
          => /\ pc = "done"
             /\ err = ""
             /\ Len(rfIds) = 1 + (IF blockCount >= 1 THEN blockCount ELSE 0)
             /\ Len(blockPayloads) = (IF blockCount >= 1 THEN blockCount ELSE 0)
             /\ Len(Acks) = Len(rfIds))
    /\ (pc = "failed" <=> err # "")
    /\ (pc = "failed" => ~returned /\ result = <<>>)
    /\ (~returned => result = <<>>)

\* the second of two blocks timed out after the first had been appended
C9_Witness ==
    /\ pc = "failed"
    /\ err = "socket.timeout"
    /\ blockCount = 2
    /\ Len(blockPayloads) = 1
    /\ retval # <<>>
    /\ ~returned

(* C10.  Once the operation is under way, exactly one frame has been sent   *)
(* by _sendRequest: the first frame sent, carrying the id waited for; it    *)
(* was sent before anything was received, and no step of the wait loop      *)
(* sends a frame, be it a poll that timed out, a discarded frame or the     *)
(* final timeout.                                                           *)
C10_NoRetransmission ==
    /\ [](pc # "idle" => /\ Len(Requests) = 1
                         /\ sent[1].by = "_sendRequest"
                         /\ sent[1].msgId = msgId)
    /\ [](pc = "idle" => sent = <<>> /\ respMsgId = NoMsgId /\ rfIds = <<>> /\ now = 0)
    /\ [][pc = "wait" => sent' = sent]_vars

\* polls timed out, a frame was discarded, the deadline passed: one frame was sent
C10_Witness ==
    pc = "failed" /\ err = "Exception" /\ nStray = 1 /\ now = Deadline /\ Len(sent) = 1

(* C11.  From the ack of the first response frame on, compression is in     *)
(* effect exactly when that first frame has its compressed flag at 1 or is  *)
(* of type 1004, whatever the block frames read afterwards carry.  A get    *)
(* operation that returns yields the decoded text of the inflated buffer in *)
(* that case and of the buffer itself otherwise; it fails with zlib.error   *)
(* exactly when compression is in effect and the buffer does not inflate.   *)
C11_EffectiveCompression ==
    /\ (Len(Acks) >= 1 => (msgCompressed <=> FirstFrameCompressed))
    /\ (Len(Acks) = 0 => ~msgCompressed)
    /\ (pc = "done" /\ IsGet(op) =>
            IF FirstFrameCompressed
            THEN /\ ZlibDecompress(retval).ok
                 /\ result = Utf8Decode(ZlibDecompress(retval).val).val
            ELSE result = Utf8Decode(retval).val)
    /\ (err = "zlib.error" => FirstFrameCompressed /\ ~ZlibDecompress(retval).ok)
    /\ (pc = "failed" /\ err = "UnicodeDecodeError" =>
            ~(FirstFrameCompressed /\ ~ZlibDecompress(retval).ok))

\* an uncompressed lead message, then a block of type 1004: nothing was inflated
C11_Witness ==
    /\ pc = "done"
    /\ IsGet(op)
    /\ firstFrame[1].msgType = MSP_LEADMESSAGE_MESSAGE_TYPE
    /\ firstFrame[1].compressed = 0
    /\ msgType = MSP_TELEMETRYUPDATE_MESSAGE_TYPE
    /\ blockPayloads = <<SubHeader \o <<65>> >>
    /\ ~msgCompressed
    /\ result = <<65>>

(* C12.  When the first response frame is not a lead message, _receiveFile  *)
(* reads no other frame: it never waits for a block, it has read one frame  *)
(* and, once past the ack, sent one ack.  Once past the branch, the buffer  *)
(* is the whole payload of that frame when compression is in effect, and    *)
(* the payload without its first 8 bytes otherwise.                         *)
C12_SingleFrame ==
    (firstFrame # <<>> /\ firstFrame[1].msgType # MSP_LEADMESSAGE_MESSAGE_TYPE) =>
        /\ pc \in {"rf_ack", "rf_branch", "finish", "done", "failed"}
        /\ Len(rfIds) = 1
        /\ blockPayloads = <<>>
        /\ nBlocks = 0
        /\ Len(Acks) = (IF pc = "rf_ack" THEN 0 ELSE 1)
        /\ (pc = "failed" => err \in FileEndErrs)
        /\ (pc \in {"finish", "done", "failed"} =>
                retval = IF FirstFrameCompressed
                         THEN firstFrame[1].data
                         ELSE ConcatPast8(<<firstFrame[1].data>>))

\* a block message of 9 bytes, not compressed, answered the request: the text
\* is its last byte
C12_Witness ==
    /\ pc = "done"
    /\ firstFrame = <<[msgType |-> MSP_BLOCKMESSAGE_MESSAGE_TYPE, compressed |-> 0,
                       data |-> SubHeader \o <<65>>]>>
    /\ Len(Acks) = 1
    /\ retval = <<65>>
    /\ result = <<65>>

(* C13.  The frame _sendRequest sends for an operation has clientType 0     *)
(* exactly when the body the operation hands over is not empty and 1        *)
(* exactly when it is empty; a body that is not empty is sent followed by   *)
(* one null character, an empty body is sent as no bytes at all.            *)
C13_RequestFraming ==
    op # "none" =>
        LET body == Operations[op].extraData
            r    == sent[1]
        IN  /\ r.by = "_sendRequest"
            /\ r.msgType = Operations[op].msgType
            /\ (r.clientType = 0 <=> body # <<>>)
            /\ (r.clientType = 1 <=> body = <<>>)
            /\ (body # <<>> =>
                    /\ Len(r.extraData) = Len(body) + 1
                    /\ SubSeq(r.extraData, 1, Len(body)) = body
                    /\ r.extraData[Len(body) + 1] = NUL)
            /\ (body = <<>> => r.extraData = <<>>)

\* getLogConfig sends no body: clientType 1 and no payload byte
C13_Witness ==
    /\ op = "getLogConfig"
    /\ pc = "wait"
    /\ sent = <<Request(msgId, REQUEST_LOG_CONFIG_MESSAGE_TYPE, <<>>, 1, "_sendRequest")>>

(* C14.  Every frame sent with a payload that is not empty, request or ack, *)
(* has a payload whose last character is the null character.                *)
C14_NullTerminated ==
    \A i \in 1..Len(sent) :
        sent[i].extraData # <<>> =>
            sent[i].extraData[Len(sent[i].extraData)] = NUL

(* C15.  fromBytes fails on every datagram of fewer than 24 bytes.  Once    *)
(* recvfrom has handed out such a datagram the operation has failed with    *)
(* struct.error, and the step that received it sent no ack, matched no      *)
(* frame, counted no frame of _receiveFile and appended nothing.            *)
C15_MalformedFrame ==
    /\ [](\A dg \in Datagrams : dg.size < HeaderSize => ~fromBytes(dg).ok)
    /\ [](sawShort => pc = "failed" /\ err = "struct.error" /\ ~returned)
    /\ [][sawShort' /\ ~sawShort =>
            /\ sent' = sent
            /\ respMsgId' = respMsgId
            /\ matchedId' = matchedId
            /\ rfIds' = rfIds
            /\ firstFrame' = firstFrame
            /\ blockPayloads' = blockPayloads
            /\ nBlocks' = nBlocks
            /\ retval' = retval]_vars

\* 23 bytes or none arrived in place of the second of two blocks
C15_Witness ==
    /\ sawShort
    /\ pc = "failed"
    /\ blockCount = 2
    /\ Len(blockPayloads) = 1
    /\ Len(Acks) = 2

(* C16.  Decoding the bytes of an encoded frame gives back every field of   *)
(* the frame: id, timestamp, message type, client type, the two reserved    *)
(* bytes, the compressed flag and the payload.                              *)
C16_RoundTrip ==
    codec.pc = "decoded" =>
        /\ codec.out.ok
        /\ codec.out.msgId = codec.frame.msgId
        /\ codec.out.tstamp = codec.frame.tstamp
        /\ codec.out.msgType = codec.frame.msgType
        /\ codec.out.clientType = codec.frame.clientType
        /\ codec.out.res1 = codec.frame.res1
        /\ codec.out.compressed = codec.frame.compressed
        /\ codec.out.res3 = codec.frame.res3
        /\ codec.out.rdata = Utf8Encode(codec.frame.payload)

(* C16, as the code has it.  toBytes writes 24 header bytes and the UTF-8   *)
(* bytes of the text; decoding them gives back the id, the message type,    *)
(* the client type and the bytes of the text, the version "1.19", the time  *)
(* at which toBytes ran as timestamp, and 0 for each of the two reserved    *)
(* bytes and for the compressed flag.                                       *)
C16_RoundTripOfRequestFields ==
    /\ (codec.pc \in {"encoded", "decoded"} =>
            Len(codec.wire) = HeaderSize + Len(Utf8Encode(codec.frame.payload)))
    /\ (codec.pc = "decoded" =>
            /\ codec.out.ok
            /\ codec.out.msgId = codec.frame.msgId
            /\ codec.out.msgType = codec.frame.msgType
            /\ codec.out.clientType = codec.frame.clientType
            /\ codec.out.vers = Version
            /\ codec.out.rdata = Utf8Encode(codec.frame.payload)
            /\ Utf8Decode(codec.out.rdata) = [ok |-> TRUE, val |-> codec.frame.payload]
            /\ codec.out.tstamp = codec.clock
            /\ codec.out.res1 = 0
            /\ codec.out.compressed = 0
            /\ codec.out.res3 = 0)

\* a frame with an old timestamp, the compressed flag set and a two-byte
\* character in its text went through toBytes and fromBytes
C16_Witness ==
    /\ codec.pc = "decoded"
    /\ codec.frame.msgId = 2147483647
    /\ codec.frame.tstamp = 0
    /\ codec.frame.compressed = 1
    /\ codec.frame.payload = <<233, 0>>
    /\ codec.clock = 300
    /\ codec.out.rdata = <<195, 169, 0>>

(* C17.  While blocks are collected, any datagram of at least 24 bytes can  *)
(* be the next block, whatever its type and id.  A step that receives at    *)
(* that point either takes the datagram as the next block or ends the       *)
(* operation with an exception: none is passed over.  The block taken is    *)
(* then acked with its own id, counted, and its payload past byte 8 is      *)
(* appended; the count of blocks still to come goes down by one, and the    *)
(* collection ends when it reaches zero.                                    *)
C17_PositionalBlocks ==
    /\ [](pc = "blk_recv" =>
            /\ nBlocks < blockCount
            /\ Len(blockPayloads) = nBlocks
            /\ \A dg \in Frames : ENABLED ReceiveBlock(0, dg))
    /\ [][pc = "blk_recv" =>
            \/ /\ pc' = "blk_ack"
               /\ Len(rfIds') = Len(rfIds) + 1
               /\ Len(blockPayloads') = Len(blockPayloads) + 1
               /\ data' = blockPayloads'[Len(blockPayloads')]
               /\ rfMsgId' = rfIds'[Len(rfIds')]
               /\ sent' = sent /\ nBlocks' = nBlocks /\ retval' = retval
            \/ /\ pc' = "failed"
               /\ err' \in {"struct.error", "socket.timeout"}]_vars
    /\ [][pc = "blk_ack" =>
            /\ sent' = Append(sent, AckFrame(rfMsgId))
            /\ retval' = retval \o ConcatPast8(<<data>>)
            /\ blockCount' - nBlocks' = (blockCount - nBlocks) - 1
            /\ blockCount' = blockCount
            /\ pc' = IF blockCount' - nBlocks' > 0 THEN "blk_recv" ELSE "finish"]_vars

\* two blocks were announced: the second frame taken as a block is a lead
\* message, and the two carry different ids
C17_Witness ==
    /\ pc = "finish"
    /\ blockCount = 2
    /\ nBlocks = 2
    /\ Len(rfIds) = 3
    /\ rfIds[2] # rfIds[3]
    /\ msgType = MSP_LEADMESSAGE_MESSAGE_TYPE
    /\ Len(Acks) = 3
    /\ retval = <<65, 65>>

(* C18.  A set operation sends one frame, its request, and no ack, and      *)
(* _receiveFile reads nothing for it.  It returns at the step at which the  *)
(* wait loop reads a frame with the request's id, and takes no step after   *)
(* that.  If no such frame arrives (nor a datagram too short to be a        *)
(* frame), it ends with the exception of the wait loop, raised at the       *)
(* deadline.                                                                *)
C18_SetRequestOnly ==
    /\ [](op \in SetOps =>
            /\ sent = <<RequestFrame(msgId, Operations[op].msgType, Operations[op].extraData)>>
            /\ Acks = <<>>
            /\ rfIds = <<>>
            /\ firstFrame = <<>>
            /\ pc \in {"wait", "done", "failed"}
            /\ (matchedId # NoMsgId <=> pc = "done")
            /\ (pc = "done" <=> returned)
            /\ (pc = "done" => matchedId = msgId /\ result = <<>>)
            /\ (pc = "failed" => err \in {"Exception", "struct.error"}))
    /\ [][(op \in SetOps /\ pc = "wait" /\ respMsgId' = msgId) => pc' = "done"]_vars
    /\ [][~(op \in SetOps /\ pc = "done")]_vars
    /\ ([](op \in SetOps => matchedId = NoMsgId /\ err # "struct.error"))
          => <>(/\ op # "none"
                /\ (op \in SetOps => pc = "failed" /\ err = "Exception" /\ now >= Deadline))

\* setFilterSpeed returned when the frame with its id came, half a second
\* after the request
C18_Witness ==
    /\ op = "setFilterSpeed"
    /\ pc = "done"
    /\ returned
    /\ respMsgId = msgId
    /\ now = 1
    /\ Len(sent) = 1

(* C19.  The step at which the wait loop reads the frame with the request's *)
(* id keeps nothing of that frame but its id: nothing _receiveFile works on *)
(* changes, nothing is sent, nothing is returned by a get operation.  The   *)
(* first message of _receiveFile is the datagram received by a later step.  *)
(* So a get operation that has returned has read the matched frame and at   *)
(* least one more, and one for which _receiveFile has read no frame has not *)
(* returned.                                                                *)
C19_TwoFramesConsumed ==
    /\ [][(op \in GetOps /\ pc = "wait" /\ respMsgId' = msgId) =>
            /\ pc' = "rf_first"
            /\ matchedId' = msgId
            /\ fileVars' = fileVars
            /\ sent' = sent
            /\ result' = result
            /\ ~returned']_vars
    /\ [][pc = "rf_first" /\ pc' = "rf_ack" =>
            /\ matchedId = msgId
            /\ rfIds' = <<rfMsgId'>>
            /\ firstFrame' = <<[msgType |-> msgType', compressed |-> compressed',
                                data |-> data']>>]_vars
    /\ [](op \in GetOps /\ returned =>
            /\ matchedId = msgId
            /\ Len(rfIds) >= 1
            /\ firstFrame # <<>>)
    /\ [](op \in GetOps /\ rfIds = <<>> => ~returned /\ result = <<>> /\ pc # "done")

\* getTelemetry: the frame with the request's id came, then nothing more
C19_Witness ==
    /\ op = "getTelemetry"
    /\ pc = "failed"
    /\ err = "socket.timeout"
    /\ matchedId = msgId
    /\ rfIds = <<>>
    /\ ~returned

(* C20.  When the first response frame is a lead message announcing no      *)
(* block, or a negative number of blocks, _receiveFile reads no other       *)
(* frame and sends the one ack of the lead message; the buffer is empty.    *)
(* The operation returns the empty text if compression is not in effect,    *)
(* and fails with zlib.error if it is.                                      *)
C20_EmptyReassembly ==
    EmptyLead =>
        /\ pc \in {"rf_ack", "rf_branch", "finish", "done", "failed"}
        /\ Len(rfIds) = 1
        /\ blockPayloads = <<>>
        /\ nBlocks = 0
        /\ Len(Acks) = (IF pc = "rf_ack" THEN 0 ELSE 1)
        /\ retval = <<>>
        /\ (pc \in {"finish", "done", "failed"} =>
                blockCount = ParseBlockCount(firstFrame[1].data).val)
        /\ (pc = "done" => ~FirstFrameCompressed /\ returned /\ result = <<>>)
        /\ (pc = "failed" => FirstFrameCompressed /\ err = "zlib.error" /\ ~returned)

\* a lead message with the compressed flag set announced -1 blocks
C20_Witness ==
    /\ pc = "failed"
    /\ err = "zlib.error"
    /\ firstFrame = <<[msgType |-> MSP_LEADMESSAGE_MESSAGE_TYPE, compressed |-> 1,
                       data |-> LeadXml(-1)]>>
    /\ blockCount = -1
    /\ Len(Acks) = 1

====
